---- MODULE Spec2Model ----
(***************************************************************************)
(* The Telugu OCR post-processing tool (src/app_pp.py): the /review        *)
(* handler that flags low-confidence out-of-dictionary predictions with    *)
(* tied nearest dictionary words, and the /process handler that applies    *)
(* the corrections posted back, scores the result and writes the output.   *)
(*                                                                         *)
(* A word is a sequence of codepoints.  A corpus file is a sequence of     *)
(* lines, a line being the sequence of its tab-separated fields; the       *)
(* confidence field is a number of hundredths.  A dictionary file is the   *)
(* set of its lines (read_dictionary builds a set, so order and            *)
(* multiplicity of the lines are lost on reading).                         *)
(***************************************************************************)
EXTENDS Integers, Sequences, FiniteSets, TLC

VARIABLES
    req,        \* per session: what the user uploads on the index form
    pc,         \* per session: the page or handler result the session is at
    files,      \* the server's filesystem: path -> content
    page,       \* per session: the review page rendered by review()
    form,       \* per session: the form posted to /process
    result,     \* per session: the locals of process() at the end of scoring
    error,      \* per session: the exception that ended process(), if any
    download    \* per session: the file body returned by send_file

vars == <<req, pc, files, page, form, result, error, download>>

-----------------------------------------------------------------------------
(* Bounds of the model *)

MaxLen == 3         \* longest dictionary line
MaxPredLen == 2     \* longest prediction drawn for the candidate generator
MaxDict == 3        \* most lines in a dictionary file
MaxRecords == 2     \* most lines in a corpus file
MaxKeys == 1        \* most correction_<i> keys a hand-made form carries
NumSeeds == 6       \* hash seeds a server process may start with

(* Program constants *)

TeluguLo == 3072    \* U+0C00
TeluguHi == 3199    \* U+0C7F
UPLOAD_FOLDER == "uploads"
OUTPUT_FOLDER == "outputs"

-----------------------------------------------------------------------------
(* Input alphabets: two Telugu letters (U+0C05, U+0C06) and Latin 'A' *)

Sessions == {1, 2}
Chars == {3077, 3078, 65}
TeluguChars == {3077, 3078}
HashSeeds == 0 .. (NumSeeds - 1)
NoValue == "None"

RECURSIVE WordsUpTo(_, _)
WordsUpTo(A, n) ==
    IF n = 0 THEN {<<>>}
    ELSE LET W == WordsUpTo(A, n - 1)
         IN  W \cup {Append(w, c) : w \in W, c \in A}

-----------------------------------------------------------------------------
(* Helpers of the handlers *)

is_telugu_word(word) ==
    /\ Len(word) >= 1
    /\ \A i \in 1 .. Len(word) : word[i] >= TeluguLo /\ word[i] <= TeluguHi

read_data(file) ==
    LET rows == SelectSeq(file, LAMBDA parts : Len(parts) = 3)
    IN  [gt_list   |-> [k \in 1 .. Len(rows) |-> rows[k][1]],
         pred_list |-> [k \in 1 .. Len(rows) |-> rows[k][2]],
         prob_list |-> [k \in 1 .. Len(rows) |-> rows[k][3]]]

read_dictionary(file) == {word \in file : is_telugu_word(word)}

Min3(a, b, c) ==
    IF a <= b /\ a <= c THEN a ELSE IF b <= c THEN b ELSE c

RECURSIVE LevAt(_, _, _, _)
LevAt(a, b, i, j) ==
    IF i = 0 THEN j
    ELSE IF j = 0 THEN i
    ELSE Min3(LevAt(a, b, i - 1, j) + 1,
              LevAt(a, b, i, j - 1) + 1,
              LevAt(a, b, i - 1, j - 1) + (IF a[i] = b[j] THEN 0 ELSE 1))

editdistance(a, b) == LevAt(a, b, Len(a), Len(b))

(* Iteration order of a set of str (line 91 iterates the set built on line  *)
(* 33): it follows the string hashes, which Python randomises per server   *)
(* process, so it is not fixed by the set's contents.  The seed of the     *)
(* process that serves a request selects the enumeration; the seeds        *)
(* 0 .. 5 give every order of a set of up to three words.                  *)
RECURSIVE WordLess(_, _)
WordLess(u, v) ==
    IF u = <<>> THEN v # <<>>
    ELSE IF v = <<>> THEN FALSE
    ELSE IF u[1] # v[1] THEN u[1] < v[1]
    ELSE WordLess(Tail(u), Tail(v))

RECURSIVE SetOrder(_, _)
SetOrder(S, seed) ==
    IF S = {} THEN <<>>
    ELSE LET n == Cardinality(S)
             e == CHOOSE x \in S :
                     Cardinality({y \in S : WordLess(y, x)}) = seed % n
         IN  <<e>> \o SetOrder(S \ {e}, seed \div n)

-----------------------------------------------------------------------------
(* review(): candidate generation, lines 86-100 *)

(* Mutation of Skip: the confidence test of line 88 is dropped *)
SkipIgnoringConfidence(pred, prob, dictionary, prob_threshold) ==
    \/ ~ is_telugu_word(pred)
    \/ pred \in dictionary

Skip(pred, prob, dictionary, prob_threshold) ==
    \/ ~ is_telugu_word(pred)
    \/ pred \in dictionary
    \/ prob > prob_threshold

(* Mutation of Candidates: the first-character filter of line 91 is dropped *)
CandidatesUnrestricted(pred, traversal) == traversal

Candidates(pred, traversal) ==
    SelectSeq(traversal, LAMBDA w : w[1] = pred[1])

Distances(pred, candidates) ==
    [k \in 1 .. Len(candidates) |->
        <<candidates[k], editdistance(pred, candidates[k])>>]

MinDist(distances) ==
    CHOOSE m \in {distances[k][2] : k \in 1 .. Len(distances)} :
        \A k \in 1 .. Len(distances) : m <= distances[k][2]

(* Mutation of Tied: near ties are kept as well *)
TiedWithinOne(distances, min_dist) ==
    LET sel == SelectSeq(distances, LAMBDA d : d[2] <= min_dist + 1)
    IN  [k \in 1 .. Len(sel) |-> sel[k][1]]

Tied(distances, min_dist) ==
    LET sel == SelectSeq(distances, LAMBDA d : d[2] = min_dist)
    IN  [k \in 1 .. Len(sel) |-> sel[k][1]]

(* Mutation of Emits: a single closest word is surfaced too *)
EmitsSingle(tied) == Len(tied) >= 1

Emits(tied) == Len(tied) > 1

(* The tied list of one prediction, or <<>> when a `continue` is taken *)
TiedFor(pred, prob, dictionary, traversal, prob_threshold, dist_threshold) ==
    IF Skip(pred, prob, dictionary, prob_threshold) THEN <<>>
    ELSE LET distances == Distances(pred, Candidates(pred, traversal))
         IN  IF Len(distances) = 0 THEN <<>>
             ELSE LET min_dist == MinDist(distances)
                  IN  IF min_dist > dist_threshold THEN <<>>
                      ELSE Tied(distances, min_dist)

ReviewData(data, dictionary, traversal, prob_threshold, dist_threshold) ==
    LET n == Len(data.pred_list)
        tiedAt(i) == TiedFor(data.pred_list[i + 1], data.prob_list[i + 1],
                             dictionary, traversal,
                             prob_threshold, dist_threshold)
        idxs == SelectSeq([k \in 1 .. n |-> k - 1],
                          LAMBDA i : Emits(tiedAt(i)))
    IN  [k \in 1 .. Len(idxs) |->
            [index      |-> idxs[k],
             word       |-> data.pred_list[idxs[k] + 1],
             prob       |-> data.prob_list[idxs[k] + 1],
             candidates |-> tiedAt(idxs[k])]]

Save(fs, path, content) ==
    [p \in (DOMAIN fs) \cup {path} |-> IF p = path THEN content ELSE fs[p]]

(* The /review handler.  A session may post the index form again from the  *)
(* review page; each request is served by a process with some hash seed.   *)
review(s) ==
    /\ pc[s] \in {"index", "review"}
    /\ \E seed \in HashSeeds :
        LET input_path == <<UPLOAD_FOLDER, req[s].input_file.filename>>
            dict_path  == <<UPLOAD_FOLDER, req[s].dict_file.filename>>
            saved == Save(Save(files, input_path, req[s].input_file.content),
                          dict_path, req[s].dict_file.content)
            data == read_data(saved[input_path])
            dictionary == read_dictionary(saved[dict_path])
            review_data == ReviewData(data, dictionary,
                                      SetOrder(dictionary, seed),
                                      req[s].prob_threshold,
                                      req[s].edit_dist_threshold)
        IN  /\ files' = saved
            /\ page' = [page EXCEPT ![s] =
                          [input_path          |-> input_path,
                           dict_path           |-> dict_path,
                           prob_threshold      |-> req[s].prob_threshold,
                           edit_dist_threshold |-> req[s].edit_dist_threshold,
                           review_data         |-> review_data]]
    /\ pc' = [pc EXCEPT ![s] = "review"]
    /\ UNCHANGED <<req, form, result, error, download>>

-----------------------------------------------------------------------------
(* process(): correction, scoring and output, lines 137-155 *)

(* Mutation of SetItem: the index counts from the end of the list *)
SetItemFromEnd(list, idx, value) ==
    LET pos == IF idx >= 0 THEN Len(list) - idx ELSE 0 - idx
    IN  [list EXCEPT ![pos] = value]

SetItem(list, idx, value) ==
    LET pos == IF idx >= 0 THEN idx + 1 ELSE Len(list) + idx + 1
    IN  [list EXCEPT ![pos] = value]

(* The loop of lines 140-143 from the k-th correction key on; a list index *)
(* outside -n .. n-1 raises IndexError and ends the handler.               *)
RECURSIVE ApplyFrom(_, _, _)
ApplyFrom(pred_list, corrections, k) ==
    IF k > Len(corrections) THEN [raised |-> FALSE, pred_list |-> pred_list]
    ELSE LET idx == corrections[k][1]
             n   == Len(pred_list)
         IN  IF idx >= n \/ idx < 0 - n
             THEN [raised |-> TRUE, pred_list |-> pred_list]
             ELSE ApplyFrom(SetItem(pred_list, idx, corrections[k][2]),
                            corrections, k + 1)

ApplyCorrections(pred_list, corrections) == ApplyFrom(pred_list, corrections, 1)

RECURSIVE SumSeq(_)
SumSeq(q) == IF q = <<>> THEN 0 ELSE Head(q) + SumSeq(Tail(q))

(* A float quotient is kept as the pair <<numerator, denominator>> *)
(* Mutation of word_accuracy: the mismatches are counted *)
word_error_rate(gt, pred) ==
    <<SumSeq([k \in 1 .. Len(gt) |-> IF gt[k] # pred[k] THEN 1 ELSE 0]),
      Len(gt)>>

word_accuracy(gt, pred) ==
    <<SumSeq([k \in 1 .. Len(gt) |-> IF gt[k] = pred[k] THEN 1 ELSE 0]),
      Len(gt)>>

char_accuracy(gt, pred) ==
    <<SumSeq([k \in 1 .. Len(gt) |-> Len(gt[k]) - editdistance(gt[k], pred[k])]),
      SumSeq([k \in 1 .. Len(gt) |-> Len(gt[k])])>>

(* f"{x:.4f}": the quotient in ten-thousandths, rounded to nearest *)
Format4(num, den) == (2 * num * 10000 + den) \div (2 * den)

OutputFile(gt_list, pred_list, prob_list, wrr, crr) ==
    [lines |-> [k \in 1 .. Len(gt_list) |->
                   <<gt_list[k], pred_list[k], Format4(prob_list[k], 100)>>],
     wrr   |-> Format4(wrr[1], wrr[2]),
     crr   |-> Format4(crr[1], crr[2])]

output_path == <<OUTPUT_FOLDER, "corrected_output.txt">>

(* What a client may post to /process.  The review page's form carries one *)
(* correction_<index> select per ReviewItem, its options the candidates; a *)
(* hand-made request carries any keys and values.                          *)
RECURSIVE BrowserForms(_)
BrowserForms(review_data) ==
    IF review_data = <<>> THEN {<<>>}
    ELSE LET item == Head(review_data)
         IN  {<< <<item.index, item.candidates[c]>> >> \o rest :
                 c \in 1 .. Len(item.candidates),
                 rest \in BrowserForms(Tail(review_data))}

KeyRange == (0 - 1) .. MaxRecords
RawValues == {<<3077, 3078>>}

RECURSIVE RawForms(_)
RawForms(n) ==
    IF n = 0 THEN {<<>>}
    ELSE LET F == RawForms(n - 1)
         IN  F \cup {Append(f, <<i, w>>) :
                        f \in {g \in F : Len(g) = n - 1},
                        i \in KeyRange, w \in RawValues}

DistinctKeys(f) ==
    \A j, k \in 1 .. Len(f) : j # k => f[j][1] # f[k][1]

Forms(s) ==
    IF req[s].client = "browser" THEN BrowserForms(page[s].review_data)
    ELSE BrowserForms(page[s].review_data)
            \cup {f \in RawForms(MaxKeys) : DistinctKeys(f)}

process(s) ==
    /\ pc[s] = "review"
    /\ \E f \in Forms(s) :
        LET data == read_data(files[page[s].input_path])
            applied == ApplyCorrections(data.pred_list, f)
            pred_list == applied.pred_list
            wrr == word_accuracy(data.gt_list, pred_list)
            crr == char_accuracy(data.gt_list, pred_list)
        IN  /\ form' = [form EXCEPT ![s] = f]
            /\ IF applied.raised
               THEN /\ pc' = [pc EXCEPT ![s] = "error"]
                    /\ error' = [error EXCEPT ![s] = "IndexError"]
                    /\ UNCHANGED <<files, result>>
               ELSE IF wrr[2] = 0 \/ crr[2] = 0
               THEN /\ pc' = [pc EXCEPT ![s] = "error"]
                    /\ error' = [error EXCEPT ![s] = "ZeroDivisionError"]
                    /\ UNCHANGED <<files, result>>
               ELSE /\ pc' = [pc EXCEPT ![s] = "written"]
                    /\ result' = [result EXCEPT ![s] =
                                    [gt_list   |-> data.gt_list,
                                     pred_list |-> pred_list,
                                     prob_list |-> data.prob_list,
                                     wrr       |-> wrr,
                                     crr       |-> crr]]
                    /\ files' = Save(files, output_path,
                                     OutputFile(data.gt_list, pred_list,
                                                data.prob_list, wrr, crr))
                    /\ UNCHANGED error
    /\ UNCHANGED <<req, page, download>>

(* send_file(output_path), line 157 *)
send_file(s) ==
    /\ pc[s] = "written"
    /\ download' = [download EXCEPT ![s] = files[output_path]]
    /\ pc' = [pc EXCEPT ![s] = "done"]
    /\ UNCHANGED <<req, files, page, form, result, error>>

Next == \E s \in Sessions : review(s) \/ process(s) \/ send_file(s)

-----------------------------------------------------------------------------
(* Uploads drawn for the checks *)

RECURSIVE SeqsUpTo(_, _)
SeqsUpTo(S, n) ==
    IF n = 0 THEN {<<>>}
    ELSE LET Q == SeqsUpTo(S, n - 1)
         IN  Q \cup {Append(q, x) : q \in Q, x \in S}

Request(input_name, corpus, dict_name, dict, pt, dt, client) ==
    [input_file          |-> [filename |-> input_name, content |-> corpus],
     dict_file           |-> [filename |-> dict_name, content |-> dict],
     prob_threshold      |-> pt,
     edit_dist_threshold |-> dt,
     client              |-> client]

IdleRequest == Request("input.txt", <<>>, "dict.txt", {}, 90, 2, "browser")

InitRest ==
    /\ files = <<>>
    /\ page = [s \in Sessions |-> NoValue]
    /\ form = [s \in Sessions |-> NoValue]
    /\ result = [s \in Sessions |-> NoValue]
    /\ error = [s \in Sessions |-> NoValue]
    /\ download = [s \in Sessions |-> NoValue]

(* Spec: one session; corpora of up to MaxRecords lines over a small       *)
(* vocabulary, and a client that may post hand-made correction keys.       *)
ProcWords == {<<3077>>, <<3077, 3078>>}
ProcLines ==
    {<<g, p, c>> : g \in ProcWords, p \in ProcWords, c \in {90, 95}}
        \cup {<< <<3077>>, <<3077>> >>}
ProcDicts == SUBSET {<<3077>>, <<3077, 3077>>, <<3077, 3078>>}

Init ==
    /\ \E corpus \in SeqsUpTo(ProcLines, MaxRecords), dict \in ProcDicts :
          req = [s \in Sessions |->
                   IF s = 1
                   THEN Request("input.txt", corpus, "dict.txt", dict,
                                90, 2, "raw")
                   ELSE IdleRequest]
    /\ pc = [s \in Sessions |-> IF s = 1 THEN "index" ELSE "off"]
    /\ InitRest

Spec == Init /\ [][Next]_vars

(* SpecGen: one session, a browser client; a corpus of one line whose       *)
(* prediction is any word of up to MaxPredLen characters, against any      *)
(* dictionary file of up to MaxDict lines of up to MaxLen characters.      *)
RECURSIVE SubsetsUpTo(_, _)
SubsetsUpTo(S, n) ==
    IF n = 0 THEN {{}}
    ELSE LET P == SubsetsUpTo(S, n - 1)
         IN  P \cup {q \cup {x} : q \in P, x \in S}

GenCorpora ==
    {<<>>, << << <<3077>>, <<3077>> >> >>}
        \cup {<< <<g, p, c>> >> :
                 g \in {<<3077>>}, p \in WordsUpTo(Chars, MaxPredLen),
                 c \in {90, 91}}
GenDictLines == WordsUpTo(TeluguChars, MaxLen) \cup {<<65>>}
GenDicts == SubsetsUpTo(GenDictLines, MaxDict)

InitGen ==
    /\ \E corpus \in GenCorpora, dict \in GenDicts, dt \in {1, 2} :
          req = [s \in Sessions |->
                   IF s = 1
                   THEN Request("input.txt", corpus, "dict.txt", dict,
                                90, dt, "browser")
                   ELSE IdleRequest]
    /\ pc = [s \in Sessions |-> IF s = 1 THEN "index" ELSE "off"]
    /\ InitRest

SpecGen == InitGen /\ [][Next]_vars

(* SpecConc: two sessions served concurrently, each uploading one of two   *)
(* corpora under one of two file names, with the same dictionary.          *)
ConcCorpora ==
    {<< << <<3077>>, <<3077, 3078>>, 80 >> >>,
     << << <<3077, 3078>>, <<3077>>, 80 >>,
        << <<3077, 3077>>, <<3077, 3078>>, 80 >> >>}
ConcNames == {"input.txt", "scan.txt"}
ConcDict == {<<3077, 3077>>, <<3077, 3078, 3077>>}

InitConc ==
    /\ \E corpus \in [Sessions -> ConcCorpora], name \in [Sessions -> ConcNames] :
          req = [s \in Sessions |->
                   Request(name[s], corpus[s], "dict.txt", ConcDict,
                           90, 2, "browser")]
    /\ pc = [s \in Sessions |-> "index"]
    /\ InitRest

SpecConc == InitConc /\ [][Next]_vars

-----------------------------------------------------------------------------
(* Vocabulary of the properties, stated on what the session uploaded *)

Reviewed(s) == pc[s] \in {"review", "written", "done", "error"}
Processed(s) == pc[s] \in {"written", "done"}

Uploaded(s) == read_data(req[s].input_file.content)
NumRecords(s) == Len(Uploaded(s).pred_list)
PredAt(s, i) == Uploaded(s).pred_list[i + 1]
ProbAt(s, i) == Uploaded(s).prob_list[i + 1]

ScriptWord(w) == w # <<>> /\ \A k \in DOMAIN w : w[k] \in 3072 .. 3199
DictWords(s) == {w \in req[s].dict_file.content : ScriptWord(w)}

SameFirst(w, p) == Len(w) >= 1 /\ Len(p) >= 1 /\ w[1] = p[1]
Restricted(s, p) == {w \in DictWords(s) : SameFirst(w, p)}
Closest(s, p) ==
    {w \in Restricted(s, p) :
        \A v \in Restricted(s, p) : editdistance(p, w) <= editdistance(p, v)}

Items(s) == page[s].review_data
ItemSet(s) == {Items(s)[k] : k \in 1 .. Len(Items(s))}
CandSet(item) == {item.candidates[k] : k \in 1 .. Len(item.candidates)}
Flagged(s) == {item.index : item \in ItemSet(s)}

-----------------------------------------------------------------------------
(* C1: every ReviewItem's candidate list is exactly the dictionary words   *)
(* that share the prediction's first character and lie at the minimum edit *)
(* distance over that restricted set; none at the minimum is omitted, none *)
(* farther is included, and the minimum does not exceed dist_threshold.    *)
C1_CandidatesAreTheClosest ==
    \A s \in Sessions : Reviewed(s) =>
        \A item \in ItemSet(s) :
            /\ item.index \in 0 .. (NumRecords(s) - 1)
            /\ item.word = PredAt(s, item.index)
            /\ CandSet(item) = Closest(s, item.word)
            /\ Cardinality(CandSet(item)) = Len(item.candidates)
            /\ \A w \in CandSet(item) :
                  editdistance(item.word, w) <= req[s].edit_dist_threshold

(* C1 witness: an item whose restricted set also holds a farther word,     *)
(* left out, while its candidates are at a distance of exactly the         *)
(* threshold.                                                              *)
C1_Witness ==
    \E s \in Sessions : Reviewed(s) /\
        \E item \in ItemSet(s) :
            /\ Restricted(s, item.word) \ CandSet(item) # {}
            /\ \E w \in CandSet(item) :
                  editdistance(item.word, w) = req[s].edit_dist_threshold

(* C2: a position whose closest restricted dictionary word is unique gets  *)
(* no ReviewItem; every emitted ReviewItem has at least two candidates.    *)
C2_NoItemForUniqueClosest ==
    \A s \in Sessions : Reviewed(s) =>
        /\ \A item \in ItemSet(s) : Len(item.candidates) >= 2
        /\ \A i \in 0 .. (NumRecords(s) - 1) :
              Cardinality(Closest(s, PredAt(s, i))) = 1 => i \notin Flagged(s)

(* C2 witness: a low-confidence script word outside the dictionary whose   *)
(* single closest word is within the threshold, and no item for it.        *)
C2_Witness ==
    \E s \in Sessions : Reviewed(s) /\
        \E i \in 0 .. (NumRecords(s) - 1) :
            /\ ScriptWord(PredAt(s, i))
            /\ PredAt(s, i) \notin DictWords(s)
            /\ ProbAt(s, i) <= req[s].prob_threshold
            /\ Cardinality(Closest(s, PredAt(s, i))) = 1
            /\ Cardinality(Restricted(s, PredAt(s, i))) >= 2
            /\ \A w \in Closest(s, PredAt(s, i)) :
                  editdistance(PredAt(s, i), w) <= req[s].edit_dist_threshold
            /\ i \notin Flagged(s)

(* C3: a position is flagged only if its prediction is a script word, is   *)
(* not in the dictionary and has confidence <= prob_threshold; confidence  *)
(* equal to the threshold stays eligible: such a word with two or more     *)
(* closest words within the distance threshold is flagged.                 *)
C3_FlagConditions ==
    \A s \in Sessions : Reviewed(s) =>
        \A i \in 0 .. (NumRecords(s) - 1) :
            /\ i \in Flagged(s) =>
                  /\ ScriptWord(PredAt(s, i))
                  /\ PredAt(s, i) \notin DictWords(s)
                  /\ ProbAt(s, i) <= req[s].prob_threshold
            /\ ( /\ ScriptWord(PredAt(s, i))
                 /\ PredAt(s, i) \notin DictWords(s)
                 /\ ProbAt(s, i) = req[s].prob_threshold
                 /\ Cardinality(Closest(s, PredAt(s, i))) >= 2
                 /\ \A w \in Closest(s, PredAt(s, i)) :
                       editdistance(PredAt(s, i), w)
                           <= req[s].edit_dist_threshold )
                  => i \in Flagged(s)

(* C3 witness: an item whose confidence equals prob_threshold *)
C3_Witness ==
    \E s \in Sessions : Reviewed(s) /\
        \E item \in ItemSet(s) : item.prob = req[s].prob_threshold

(* C4: every candidate shares the prediction's first character, also when  *)
(* a dictionary word with another first character is closer; a prediction  *)
(* with no dictionary word on its first character gets no ReviewItem.      *)
C4_CandidatesShareFirstChar ==
    \A s \in Sessions : Reviewed(s) =>
        /\ \A item \in ItemSet(s) :
              \A w \in CandSet(item) : SameFirst(w, item.word)
        /\ \A i \in 0 .. (NumRecords(s) - 1) :
              Restricted(s, PredAt(s, i)) = {} => i \notin Flagged(s)

(* C4 witness: an item for which a dictionary word with another first      *)
(* character is strictly closer than every candidate.                      *)
C4_Witness ==
    \E s \in Sessions : Reviewed(s) /\
        \E item \in ItemSet(s) :
            \E v \in DictWords(s) :
                /\ ~ SameFirst(v, item.word)
                /\ \A w \in CandSet(item) :
                      editdistance(item.word, v) < editdistance(item.word, w)

-----------------------------------------------------------------------------
(* Properties of process() *)

Keys(s) == {form[s][k][1] : k \in 1 .. Len(form[s])}
ValueFor(s, i) == form[s][CHOOSE k \in 1 .. Len(form[s]) : form[s][k][1] = i][2]
Changed(s) ==
    {i \in 0 .. (NumRecords(s) - 1) : result[s].pred_list[i + 1] # PredAt(s, i)}

(* C5: when the posted CorrectionMap holds positions of the record         *)
(* sequence, the final prediction sequence has the chosen word at every    *)
(* mapped position and the corpus prediction at every other position (so   *)
(* an empty map changes nothing); the ground truths, the confidences and   *)
(* the number of records are those read from the corpus in every case.     *)
C5_OnlyMappedPositionsChange ==
    \A s \in Sessions : Processed(s) =>
        /\ Len(result[s].pred_list) = NumRecords(s)
        /\ result[s].gt_list = Uploaded(s).gt_list
        /\ result[s].prob_list = Uploaded(s).prob_list
        /\ Keys(s) \subseteq 0 .. (NumRecords(s) - 1) =>
              \A i \in 0 .. (NumRecords(s) - 1) :
                  result[s].pred_list[i + 1] =
                      IF i \in Keys(s) THEN ValueFor(s, i) ELSE PredAt(s, i)

(* C5 witness: two records, a map of one position whose word differs from  *)
(* the corpus prediction has been applied, the other prediction different  *)
(* from that word.                                                         *)
C5_Witness ==
    \E s \in Sessions :
        /\ Processed(s)
        /\ NumRecords(s) >= 2
        /\ \E i \in Keys(s) :
              /\ Keys(s) = {i}
              /\ i \in 0 .. (NumRecords(s) - 1)
              /\ Changed(s) = {i}
              /\ \E j \in 0 .. (NumRecords(s) - 1) :
                    j # i /\ PredAt(s, j) # ValueFor(s, i)

(* C8: a corpus that yields no record is handled by a defined policy:      *)
(* review() shows no item and process() does not end in an unhandled       *)
(* division by zero.                                                       *)
C8_EmptyCorpusHandled ==
    \A s \in Sessions :
        (Reviewed(s) /\ NumRecords(s) = 0) =>
            /\ Items(s) = <<>>
            /\ error[s] # "ZeroDivisionError"

(* C9: every position whose final prediction differs from the corpus       *)
(* prediction was flagged by review(), and a request none of whose         *)
(* correction keys is a flagged position alters no record.                 *)
C9_OnlyFlaggedPositionsApplied ==
    \A s \in Sessions : Processed(s) =>
        /\ Changed(s) \subseteq Flagged(s)
        /\ Keys(s) \cap Flagged(s) = {} => Changed(s) = {}

(* C10: the word recognition rate is the number of positions whose final   *)
(* prediction equals the ground truth over the number of records, written  *)
(* with four decimals; it is 1.0 when every final prediction equals its    *)
(* ground truth.                                                           *)
C10_WordRecognitionRate ==
    \A s \in Sessions : pc[s] = "written" =>
        LET n == NumRecords(s)
            hits == Cardinality({i \in 1 .. n :
                        Uploaded(s).gt_list[i] = result[s].pred_list[i]})
        IN  /\ n > 0
            /\ result[s].wrr[2] > 0
            /\ result[s].wrr[1] * n = hits * result[s].wrr[2]
            /\ files[output_path].wrr = (20000 * hits + n) \div (2 * n)
            /\ hits = n =>
                  /\ result[s].wrr[1] = result[s].wrr[2]
                  /\ files[output_path].wrr = 10000

(* C10 witness: every final prediction equals its ground truth only        *)
(* because of an applied correction, and the rate written is 1.0000.       *)
C10_Witness ==
    \E s \in Sessions :
        /\ pc[s] = "written"
        /\ NumRecords(s) >= 2
        /\ Changed(s) # {}
        /\ result[s].pred_list = Uploaded(s).gt_list
        /\ files[output_path].wrr = 10000

(* C10 witness of a rate strictly between 0 and 1 *)
C10_PartialRate ==
    \E s \in Sessions :
        /\ pc[s] = "written"
        /\ files[output_path].wrr \in {3333, 5000, 6667}

-----------------------------------------------------------------------------
(* C6: sessions served concurrently are independent: process() scores the  *)
(* records the same session uploaded, every ReviewItem still names the     *)
(* prediction it was made for, and the file returned to a session is the   *)
(* one that session's process() wrote.                                     *)
C6_SessionsIndependent ==
    \A s \in Sessions :
        /\ Processed(s) =>
              /\ result[s].gt_list = Uploaded(s).gt_list
              /\ result[s].prob_list = Uploaded(s).prob_list
              /\ \A item \in ItemSet(s) :
                    item.word = PredAt(s, item.index)
        /\ pc[s] = "error" => error[s] # "IndexError"
        /\ pc[s] = "done" =>
              download[s] = OutputFile(result[s].gt_list, result[s].pred_list,
                                       result[s].prob_list, result[s].wrr,
                                       result[s].crr)

(* C6, the output file alone: the file returned to a session holds the     *)
(* ground truths of the corpus that session uploaded.                      *)
C6_OwnDownload ==
    \A s \in Sessions :
        (pc[s] = "done" /\ result[s].gt_list = Uploaded(s).gt_list) =>
            [k \in 1 .. Len(download[s].lines) |-> download[s].lines[k][1]]
                = Uploaded(s).gt_list

(* C7: review() is deterministic: running it again on the same upload      *)
(* renders the same ReviewItems, in ascending position order, with every   *)
(* candidate list in the same order.                                       *)
C7_ReviewDeterministic ==
    [][\A s \in Sessions :
          (pc[s] = "review" /\ pc'[s] = "review") => page'[s] = page[s]]_vars

(* C7, the part on positions: the items are in ascending position order *)
C7_AscendingPositions ==
    \A s \in Sessions : Reviewed(s) =>
        \A j, k \in 1 .. Len(Items(s)) :
            j < k => Items(s)[j].index < Items(s)[k].index

====
